---- MODULE Spec2Model ----
(***************************************************************************)
(* Model of the museum chatbot request handler of app.py: the Flask route  *)
(* get_bot_response with the helpers it calls (is_valid_question,          *)
(* save_question, fuzzy_match_question, search_intents, the three search   *)
(* providers and is_question_about_museum).                                *)
(*                                                                         *)
(* Text is a sequence of one-character strings.  The Arabic literals of   *)
(* the source are written as short words over a small Latin alphabet; the  *)
(* words that stand for a literal are named after the source's variable.   *)
(***************************************************************************)
EXTENDS Integers, Sequences, FiniteSets, TLC

(***************************************************************************)
(* Bounds of the model.                                                    *)
(***************************************************************************)
MaxRequests == 2

(***************************************************************************)
(* Characters and the str methods the handler uses.                        *)
(***************************************************************************)
\* Python's None, a value no text equals
None == <<"None">>

Digits == {"0", "1", "2", "3"}

Whitespace == {" "}

\* code-point order of the characters that occur in the model's texts
Ord(c) ==
    CASE c = " " -> 32
      [] c = "!" -> 33
      [] c = "0" -> 48
      [] c = "1" -> 49
      [] c = "2" -> 50
      [] c = "3" -> 51
      [] c = "A" -> 65
      [] c = "U" -> 85
      [] c = "a" -> 97
      [] c = "b" -> 98
      [] c = "e" -> 101
      [] c = "f" -> 102
      [] c = "h" -> 104
      [] c = "i" -> 105
      [] c = "m" -> 109
      [] c = "o" -> 111
      [] c = "p" -> 112
      [] c = "s" -> 115
      [] c = "u" -> 117
      [] c = "w" -> 119
      [] c = "x" -> 120
      [] c = "y" -> 121
      [] c = "z" -> 122
      [] c = "~" -> 126
      [] OTHER -> 63

\* str.lower() on one character
LowerChar(c) ==
    CASE c = "A" -> "a"
      [] c = "U" -> "u"
      [] OTHER -> c

\* str.lower()
Lower(s) == [i \in 1..Len(s) |-> LowerChar(s[i])]

\* str.isdigit(): non-empty and every character is a digit
IsDigit(s) == Len(s) > 0 /\ \A i \in 1..Len(s) : s[i] \in Digits

\* str.strip(): drop leading and trailing whitespace
RECURSIVE LStrip(_)
LStrip(s) == IF s # <<>> /\ Head(s) \in Whitespace THEN LStrip(Tail(s)) ELSE s

RECURSIVE RStrip(_)
RStrip(s) ==
    IF s # <<>> /\ s[Len(s)] \in Whitespace
    THEN RStrip(SubSeq(s, 1, Len(s) - 1))
    ELSE s

\* the message taken as it is, without strip()
Strip_Mut(s) == s

Strip(s) == RStrip(LStrip(s))

\* the Python operator "sub in s" on strings
Contains(s, sub) ==
    \E i \in 0..(Len(s) - Len(sub)) : SubSeq(s, i + 1, i + Len(sub)) = sub

\* string comparison s < t (lexicographic by code point)
RECURSIVE StrLess(_, _)
StrLess(s, t) ==
    IF t = <<>> THEN FALSE
    ELSE IF s = <<>> THEN TRUE
    ELSE IF Ord(Head(s)) # Ord(Head(t)) THEN Ord(Head(s)) < Ord(Head(t))
    ELSE StrLess(Tail(s), Tail(t))

(***************************************************************************)
(* Literals of app.py.                                                     *)
(***************************************************************************)

\* line 121, the reply to an empty message (HTTP 400)
MsgInvalid == <<"!", "v">>

\* line 127, the reply to an ill-formed question
MsgUnclear == <<"!", "c">>

\* lines 46, 140 and 142, the reply when no provider had an answer
MsgNoAnswer == <<"!", "n">>

\* line 144, the reply to a question outside the museum domain
MsgOutOfScope == <<"!", "o">>

\* line 153, the reply to an internal fault (HTTP 500)
MsgServerError == <<"!", "e">>

\* line 140, the chat model's own "no answer" text, in lower case
IDoNotUnderstand == <<"i", "d", "u">>

\* line 46, the three farewell phrases
Farewells == {<<"b", "y", "e">>, <<"b", "y", "b">>, <<"b", "y">>}

\* line 46, the answers save_question refuses to store
NonAnswers == {MsgNoAnswer} \cup Farewells

\* line 111, the museum keywords
keywords == {<<"m", "u">>, <<"p", "h">>}

\* line 134, the phrases that ask for more detail
detail_keywords == {<<"x", "p">>, <<"m", "o">>}

\* intents.json as loaded at lines 34-38: an ordered list of intents; the
\* second intent has no detailed_response
intents_data ==
    << [tag |-> <<"g">>,
        patterns |-> {<<"h", "i", "a">>, <<"x", "p", "h">>},
        responses |-> <<<<"y", "o">>>>,
        detailed_response |-> <<"y", "o", "y", "o">>],
       [tag |-> <<"t">>,
        patterns |-> {<<"h", "i", "b">>},
        responses |-> <<<<"t", "i", "x">>>>] >>

(***************************************************************************)
(* langdetect and GoogleTranslator.  A text in another language than       *)
(* Arabic starts with the mark "~".                                        *)
(***************************************************************************)
detect(text) == IF text # <<>> /\ Head(text) = "~" THEN "en" ELSE "ar"

\* the message used as it came, without the translation to Arabic
ToArabic_Mut(text) == text

\* GoogleTranslator(source='auto', target='ar').translate
ToArabic(text) == IF text # <<>> /\ Head(text) = "~" THEN Tail(text) ELSE text

\* GoogleTranslator(source='ar', target=lang).translate
FromArabic(text) == <<"~">> \o text

(***************************************************************************)
(* What the outside world supplies: the message of a request and what the  *)
(* three providers do with a query.                                        *)
(***************************************************************************)

\* the message field of the JSON bodies that are posted
Messages ==
    { <<>>, <<" ">>, <<"h", "i">>, <<"1", "2", "3">>,
      <<"h", "i", "a">>, <<"h", "i", "b">>, <<"x", "p", "h">>,
      <<"m", "o", "z">>, <<"o", "f", "f">>,
      <<"m", "u", "a">>, <<"m", "U", "A">>, <<"~", "m", "u", "a">> }

Text(t) == [kind |-> "text", text |-> t]

Raise(e) == [kind |-> "raise", exc |-> e]

\* wikipedia.summary: a summary that names the query, one that does not, or
\* an exception
WikipediaOutcomes(query) ==
    { Text(<<"w">> \o Lower(query)), Text(<<"w", "z", "z">>),
      Raise("PageError"), Raise("HTTPTimeoutError") }

\* model.generate_content: a text that names the query, one that does not,
\* an empty text, or an exception
GeminiOutcomes(query) ==
    { Text(<<"g">> \o Lower(query)), Text(<<"g", "z", "z">>), Text(<<>>),
      Raise("Exception") }

\* ddgs.text: the body of the first result, no result, or an exception
DuckDuckGoOutcomes(query) ==
    { Text(<<"d">> \o Lower(query)), Text(<<"d", "z", "z">>),
      Text(<<"b", "y", "e">>), [kind |-> "none"], Raise("Exception") }

\* questions.json as loaded at lines 28-32
InitialStores ==
    { <<>>, [k \in {<<"m", "u", "s">>} |-> <<"w", "m", "u", "s">>] }

(***************************************************************************)
(* difflib.SequenceMatcher and get_close_matches.  The texts of the model  *)
(* are far shorter than the 200 elements at which difflib starts to treat  *)
(* popular elements as junk, so no element is junk.                        *)
(***************************************************************************)

\* length of the common run of a from i and b from j (0-based, half-open)
RECURSIVE RunLen(_, _, _, _, _, _)
RunLen(a, b, i, j, ahi, bhi) ==
    IF i < ahi /\ j < bhi /\ a[i + 1] = b[j + 1]
    THEN 1 + RunLen(a, b, i + 1, j + 1, ahi, bhi)
    ELSE 0

\* SequenceMatcher.find_longest_match: the longest block, the earliest in a
\* and, among those, the earliest in b; <<alo, blo, 0>> when nothing matches
FindLongestMatch(a, b, alo, ahi, blo, bhi) ==
    LET Starts == (alo..(ahi - 1)) \X (blo..(bhi - 1))
        Run(p) == RunLen(a, b, p[1], p[2], ahi, bhi)
        Best == IF Starts = {} THEN 0
                ELSE CHOOSE k \in {Run(p) : p \in Starts} :
                         \A p \in Starts : Run(p) <= k
    IN  IF Best = 0 THEN <<alo, blo, 0>>
        ELSE LET Top == {p \in Starts : Run(p) = Best}
                 First == CHOOSE p \in Top :
                     \A r \in Top : p[1] < r[1] \/ (p[1] = r[1] /\ p[2] <= r[2])
             IN  <<First[1], First[2], Best>>

\* sum of the sizes of SequenceMatcher.get_matching_blocks
RECURSIVE Matches(_, _, _, _, _, _)
Matches(a, b, alo, ahi, blo, bhi) ==
    LET m == FindLongestMatch(a, b, alo, ahi, blo, bhi)
    IN  IF m[3] = 0 THEN 0
        ELSE m[3]
             + (IF alo < m[1] /\ blo < m[2]
                THEN Matches(a, b, alo, m[1], blo, m[2]) ELSE 0)
             + (IF m[1] + m[3] < ahi /\ m[2] + m[3] < bhi
                THEN Matches(a, b, m[1] + m[3], ahi, m[2] + m[3], bhi) ELSE 0)

\* the questions, their lower-case forms, the patterns and the stored keys
\* of the model
Words ==
    LET Questions == {ToArabic(Strip(m)) : m \in Messages}
    IN  Questions \cup {Lower(q) : q \in Questions}
        \cup UNION {intents_data[i].patterns : i \in 1..Len(intents_data)}
        \cup UNION {DOMAIN d : d \in InitialStores}

\* the number of matching characters of each pair of words, computed once:
\* the triples <<a, b, matches of a and b>>
MatchTable ==
    {<<p[1], p[2], Matches(p[1], p[2], 0, Len(p[1]), 0, Len(p[2]))>> :
         p \in Words \X Words}

\* the number of matching characters of a and b
MatchCount(a, b) ==
    IF a \in Words /\ b \in Words
    THEN (CHOOSE t \in MatchTable : t[1] = a /\ t[2] = b)[3]
    ELSE Matches(a, b, 0, Len(a), 0, Len(b))

\* SequenceMatcher.ratio() >= 0.6, i.e. 2.0 * matches / length >= 0.6
RatioAtLeastCutoff(a, b) ==
    LET T == Len(a) + Len(b)
    IN  T > 0 /\ 10 * MatchCount(a, b) >= 3 * T

\* ratio(x1) < ratio(x2) against the same word
RatioLess(word, x1, x2) ==
    MatchCount(x1, word) * (Len(x2) + Len(word))
        < MatchCount(x2, word) * (Len(x1) + Len(word))

\* get_close_matches(word, possibilities, n=1, cutoff=0.6): the set of
\* candidates that clear the cutoff, and the one with the largest
\* (score, candidate) pair
CloseMatches(word, possibilities) ==
    {x \in possibilities : RatioAtLeastCutoff(x, word)}

BestMatch(word, possibilities) ==
    LET C == CloseMatches(word, possibilities)
    IN  IF C = {} THEN None
        ELSE CHOOSE x \in C :
                 \A y \in C : y = x \/ RatioLess(word, y, x)
                                  \/ (~RatioLess(word, x, y) /\ StrLess(y, x))

(***************************************************************************)
(* The helpers of app.py.                                                  *)
(***************************************************************************)

\* Python truthiness of an optional text
Truthy(x) == x # None /\ x # <<>>

\* is_valid_question without the test for digits
is_valid_question_Mut(question) == Len(question) > 2

\* is_valid_question, lines 40-42
is_valid_question(question) == Len(question) > 2 /\ ~IsDigit(question)

\* save_question without the list of refused answers
SaveAllowed_Mut(question, answer) == is_valid_question(question)

\* the condition of save_question, line 46
SaveAllowed(question, answer) ==
    is_valid_question(question) /\ answer \notin NonAnswers

\* save_question that keeps the answer a question already has
save_question_Mut(data, question, answer) ==
    IF SaveAllowed(question, answer)
    THEN [k \in DOMAIN data \cup {question} |->
              IF k \in DOMAIN data THEN data[k] ELSE answer]
    ELSE data

\* the assignment of save_question, line 47
save_question(data, question, answer) ==
    IF SaveAllowed(question, answer)
    THEN [k \in DOMAIN data \cup {question} |->
              IF k = question THEN answer ELSE data[k]]
    ELSE data

\* fuzzy_match_question, lines 59-63
fuzzy_match_question(question, data) ==
    LET m == BestMatch(Lower(question), DOMAIN data)
    IN  IF m = None THEN None ELSE data[m]

\* search_intents, lines 69-76, from the i-th intent on: <<response, tag>>
RECURSIVE SearchIntentsFrom(_, _)
SearchIntentsFrom(question, i) ==
    IF i > Len(intents_data) THEN <<None, None>>
    ELSE IF CloseMatches(question, intents_data[i].patterns) # {}
         THEN <<intents_data[i].responses[1], intents_data[i].tag>>
         ELSE SearchIntentsFrom(question, i + 1)

\* a loop that goes on after a match: the last matching intent wins
search_intents_Mut(question) ==
    LET hits == {i \in 1..Len(intents_data) :
                     CloseMatches(question, intents_data[i].patterns) # {}}
    IN  IF hits = {} THEN <<None, None>>
        ELSE LET last == CHOOSE i \in hits : \A j \in hits : j <= i
             IN  <<intents_data[last].responses[1], intents_data[last].tag>>

search_intents(question) == SearchIntentsFrom(question, 1)

\* any() over the keywords themselves, not over their presence in the question
is_question_about_museum_Mut(question) == \E word \in keywords : word # <<>>

\* is_question_about_museum, lines 110-112
is_question_about_museum(question) ==
    \E word \in keywords : Contains(Lower(question), word)

\* the relevance test of search_wikipedia and search_gemini, lines 83 and 93
Relevant(query, text) == Contains(Lower(text), Lower(query))

\* search_wikipedia, lines 78-85, on what wikipedia.summary did
search_wikipedia(query, raw) ==
    IF raw.kind = "text"
    THEN IF Relevant(query, raw.text) THEN raw.text ELSE None
    ELSE None

\* search_gemini, lines 87-96, on what generate_content did
search_gemini(query, raw) ==
    IF raw.kind = "text"
    THEN IF raw.text # <<>> /\ Relevant(query, raw.text) THEN raw.text ELSE None
    ELSE None

\* search_duckduckgo, lines 98-107, on what ddgs.text did: the body of the
\* first result, None without results or on an exception
search_duckduckgo(query, raw) ==
    IF raw.kind = "text" THEN raw.text ELSE None

\* the exceptions search_wikipedia catches, line 84
WikipediaCaught == {"PageError", "DisambiguationError"}

\* "global last_user_tag" and "last_user_tag = tag" after every lookup
LastTagAfterLookup_Mut(old, found) == found

\* line 130 binds the tag that search_intents found to the local name tag;
\* the function has no "global last_user_tag", so the global of line 56
\* keeps its value
LastTagAfterLookup(old, found) == old

\* the "or" chain with the last two providers exchanged
Cascade_Mut == <<"wikipedia", "duckduckgo", "gemini">>

\* line 142: the order of the providers in the "or" chain
Cascade == <<"wikipedia", "gemini", "duckduckgo">>

\* line 142: "or" keeps the first operand that is true
Accepted(ret) == Truthy(ret)

\* lines 135-138: the response after the scan for the detailed response of
\* last_user_tag, from the i-th intent on
RECURSIVE DetailScan(_, _, _)
DetailScan(current, last_tag, i) ==
    IF i > Len(intents_data) THEN current
    ELSE DetailScan(
             IF intents_data[i].tag = last_tag
                /\ "detailed_response" \in DOMAIN intents_data[i]
             THEN intents_data[i].detailed_response
             ELSE current,
             last_tag, i + 1)

\* the condition of line 135
WantsDetail(message, last_tag) ==
    (\E word \in detail_keywords : Contains(Lower(message), word))
    /\ Truthy(last_tag)

\* the block of lines 141-146 run for every request
NeedsFallback_Mut(answer) == TRUE

\* the condition of line 140
NeedsFallback(answer) ==
    ~Truthy(answer) \/ Lower(answer) \in {IDoNotUnderstand, MsgNoAnswer}

(***************************************************************************)
(* questions.json as json.dump writes it, in pieces: an opening piece, one *)
(* piece per entry and a closing piece.  json.dump writes the entries in   *)
(* the order of the dict; the model writes them in the order of the keys.  *)
(***************************************************************************)
RECURSIVE SortedKeys(_)
SortedKeys(S) ==
    IF S = {} THEN <<>>
    ELSE LET first == CHOOSE k \in S : \A j \in S : j = k \/ StrLess(k, j)
         IN  <<first>> \o SortedKeys(S \ {first})

\* json.dump(questions_data, f, ...), line 49
Serialize(data) ==
    LET keys == SortedKeys(DOMAIN data)
    IN  <<<<"{">>>> \o [i \in 1..Len(keys) |-> <<keys[i], data[keys[i]]>>]
        \o <<<<"}">>>>

\* a file object opened at line 48 writes its buffer from the start of the
\* file when it is closed; what the file held beyond the buffer stays
WriteFromStart(file, buf) == buf \o SubSeq(file, Len(buf) + 1, Len(file))

\* the request threads of the server
Threads == {1, 2}

IdleWriter == [pc |-> "idle", question |-> None, answer |-> None, buf |-> <<>>]

(***************************************************************************)
(* State.                                                                  *)
(***************************************************************************)
VARIABLES
    questions_data,      \* the learned answers, line 30
    questions_file,      \* the content of questions.json
    last_user_tag,       \* line 56
    pc,                  \* where the request in progress is in get_bot_response
    user_message,        \* line 118
    detected_lang,       \* line 123
    translated_message,  \* line 124
    response,            \* line 130
    tag,                 \* line 130
    local,               \* what search_local_questions returned, line 131
    bot_response,        \* lines 131-144
    final_response,      \* the text of the JSON reply
    status,              \* the HTTP status of the reply, 0 while in progress
    calls,               \* the provider calls of the request, in order
    matched_tag,         \* history: the tag of the latest intent match
    nreq,                \* the number of requests received
    disk,                \* questions.json piece by piece, under concurrent calls
    writers              \* the concurrent calls of save_question, per thread

vars == <<questions_data, questions_file, last_user_tag, pc, user_message,
          detected_lang, translated_message, response, tag, local,
          bot_response, final_response, status, calls, matched_tag, nreq,
          disk, writers>>

conc == <<disk, writers>>

store == <<questions_data, questions_file>>

locals == <<user_message, detected_lang, translated_message, response, tag,
            local, bot_response, calls>>

Init ==
    /\ questions_data \in InitialStores
    /\ questions_file = questions_data
    /\ last_user_tag = None
    /\ pc = "idle"
    /\ user_message = None
    /\ detected_lang = None
    /\ translated_message = None
    /\ response = None
    /\ tag = None
    /\ local = None
    /\ bot_response = None
    /\ final_response = None
    /\ status = 0
    /\ calls = <<>>
    /\ matched_tag = None
    /\ nreq = 0
    /\ disk = Serialize(questions_data)
    /\ writers = [t \in Threads |-> IdleWriter]

\* the reply of the handler: jsonify and the HTTP status
Reply(text, code) ==
    /\ final_response' = text
    /\ status' = code
    /\ pc' = "done"

\* an except clause that logs the exception and returns nothing
ServerError_Mut ==
    /\ status' = 500
    /\ pc' = "done"
    /\ UNCHANGED final_response

\* lines 151-153: an exception anywhere in the handler
ServerError == Reply(MsgServerError, 500)

(***************************************************************************)
(* get_bot_response, lines 114-153, one action per step.                   *)
(***************************************************************************)

\* lines 117-121: a request arrives; an empty message is answered with 400
Receive(m) ==
    /\ pc \in {"idle", "done"}
    /\ nreq < MaxRequests
    /\ nreq' = nreq + 1
    /\ user_message' = Strip(m)
    /\ detected_lang' = None
    /\ translated_message' = None
    /\ response' = None
    /\ tag' = None
    /\ local' = None
    /\ bot_response' = None
    /\ calls' = <<>>
    /\ IF Strip(m) = <<>>
       THEN Reply(MsgInvalid, 400)
       ELSE /\ pc' = "normalize"
            /\ final_response' = None
            /\ status' = 0
    /\ UNCHANGED <<store, last_user_tag, matched_tag>>
    /\ UNCHANGED conc

\* line 117: the body is not JSON and get_json raises
ReceiveBadJson ==
    /\ pc \in {"idle", "done"}
    /\ nreq < MaxRequests
    /\ nreq' = nreq + 1
    /\ user_message' = None
    /\ detected_lang' = None
    /\ translated_message' = None
    /\ response' = None
    /\ tag' = None
    /\ local' = None
    /\ bot_response' = None
    /\ calls' = <<>>
    /\ ServerError
    /\ UNCHANGED <<store, last_user_tag, matched_tag>>
    /\ UNCHANGED conc

\* lines 123-127: detect the language, translate to Arabic, reject an
\* ill-formed question
Normalize ==
    /\ pc = "normalize"
    /\ detected_lang' = detect(user_message)
    /\ translated_message' =
           IF detect(user_message) # "ar" THEN ToArabic(user_message)
           ELSE user_message
    /\ IF ~is_valid_question(translated_message')
       THEN Reply(MsgUnclear, 200)
       ELSE /\ pc' = "intents"
            /\ UNCHANGED <<final_response, status>>
    /\ UNCHANGED <<store, last_user_tag, matched_tag, nreq, user_message,
                   response, tag, local, bot_response, calls>>
    /\ UNCHANGED conc

\* lines 123-124: langdetect.detect or the translator raises
NormalizeFails ==
    /\ pc = "normalize"
    /\ ServerError
    /\ UNCHANGED <<store, last_user_tag, matched_tag, nreq, locals>>
    /\ UNCHANGED conc

\* line 130: response, tag = search_intents(translated_message)
IntentMatch ==
    /\ pc = "intents"
    /\ response' = search_intents(translated_message)[1]
    /\ tag' = search_intents(translated_message)[2]
    /\ last_user_tag' = LastTagAfterLookup(last_user_tag, tag')
    /\ matched_tag' = IF tag' # None THEN tag' ELSE matched_tag
    /\ pc' = "local"
    /\ UNCHANGED <<store, nreq, user_message, detected_lang,
                   translated_message, local, bot_response, calls,
                   final_response, status>>
    /\ UNCHANGED conc

\* line 131: bot_response = response or search_local_questions(...)
LocalMatch ==
    /\ pc = "local"
    /\ local' = IF Truthy(response) THEN None
                ELSE fuzzy_match_question(translated_message, questions_data)
    /\ bot_response' = IF Truthy(response) THEN response ELSE local'
    /\ pc' = "elaborate"
    /\ UNCHANGED <<store, last_user_tag, matched_tag, nreq, user_message,
                   detected_lang, translated_message, response, tag, calls,
                   final_response, status>>
    /\ UNCHANGED conc

\* lines 134-138: the detailed response of the last tag, when asked for
Elaborate ==
    /\ pc = "elaborate"
    /\ bot_response' =
           IF WantsDetail(translated_message, last_user_tag)
           THEN DetailScan(bot_response, last_user_tag, 1)
           ELSE bot_response
    /\ pc' = "gate"
    /\ UNCHANGED <<store, last_user_tag, matched_tag, nreq, user_message,
                   detected_lang, translated_message, response, tag, local,
                   calls, final_response, status>>
    /\ UNCHANGED conc

\* lines 140-144: without an answer, a museum question goes to the
\* providers and any other question gets the out-of-scope reply
DomainGate ==
    /\ pc = "gate"
    /\ IF NeedsFallback(bot_response)
       THEN IF is_question_about_museum(translated_message)
            THEN pc' = Cascade[1] /\ UNCHANGED bot_response
            ELSE pc' = "persist" /\ bot_response' = MsgOutOfScope
       ELSE pc' = "denormalize" /\ UNCHANGED bot_response
    /\ UNCHANGED <<store, last_user_tag, matched_tag, nreq, user_message,
                   detected_lang, translated_message, response, tag, local,
                   calls, final_response, status>>
    /\ UNCHANGED conc

\* line 142: one operand of the "or" chain has been evaluated to ret; the
\* chain ends with it when it is accepted, goes on to the next operand
\* otherwise, and ends with the failure text after the last one
CascadeStep(name, raw, ret) ==
    LET i == CHOOSE k \in 1..Len(Cascade) : Cascade[k] = name
    IN  /\ calls' = Append(calls, [provider |-> name, raw |-> raw, ret |-> ret])
        /\ IF Accepted(ret)
           THEN pc' = "persist" /\ bot_response' = ret
           ELSE IF i < Len(Cascade)
                THEN pc' = Cascade[i + 1] /\ UNCHANGED bot_response
                ELSE pc' = "persist" /\ bot_response' = MsgNoAnswer
        /\ UNCHANGED <<store, last_user_tag, matched_tag, nreq, user_message,
                       detected_lang, translated_message, response, tag,
                       local, final_response, status>>
        /\ UNCHANGED conc

\* lines 78-85 called from line 142
Wikipedia(raw) ==
    /\ pc = "wikipedia"
    /\ raw.kind = "raise" => raw.exc \in WikipediaCaught
    /\ CascadeStep("wikipedia", raw, search_wikipedia(translated_message, raw))

\* lines 78-85: wikipedia.summary raises an exception that line 84 does not
\* name; it reaches the handler of lines 151-153
WikipediaRaises(raw) ==
    /\ pc = "wikipedia"
    /\ raw.kind = "raise" /\ raw.exc \notin WikipediaCaught
    /\ calls' = Append(calls, [provider |-> "wikipedia", raw |-> raw,
                               ret |-> None])
    /\ ServerError
    /\ UNCHANGED <<store, last_user_tag, matched_tag, nreq, user_message,
                   detected_lang, translated_message, response, tag, local,
                   bot_response>>
    /\ UNCHANGED conc

\* lines 87-96 called from line 142
Gemini(raw) ==
    /\ pc = "gemini"
    /\ CascadeStep("gemini", raw, search_gemini(translated_message, raw))

\* lines 98-107 called from line 142
DuckDuckGo(raw) ==
    /\ pc = "duckduckgo"
    /\ CascadeStep("duckduckgo", raw,
                   search_duckduckgo(translated_message, raw))

\* line 146 and lines 44-49: save_question; the file is written only when
\* the entry was stored
Persist ==
    /\ pc = "persist"
    /\ questions_data' =
           save_question(questions_data, translated_message, bot_response)
    /\ questions_file' =
           IF SaveAllowed(translated_message, bot_response)
           THEN questions_data' ELSE questions_file
    /\ pc' = "denormalize"
    /\ UNCHANGED <<last_user_tag, matched_tag, nreq, locals, final_response,
                   status>>
    /\ UNCHANGED conc

\* lines 47-49: the entry is stored and then open or json.dump raises
\* (questions.json cannot be written); lines 151-153 handle it
PersistWriteFails ==
    /\ pc = "persist"
    /\ SaveAllowed(translated_message, bot_response)
    /\ questions_data' =
           save_question(questions_data, translated_message, bot_response)
    /\ ServerError
    /\ UNCHANGED <<questions_file, last_user_tag, matched_tag, nreq, locals>>
    /\ UNCHANGED conc

\* lines 148-149: translate the answer back and reply
Denormalize ==
    /\ pc = "denormalize"
    /\ Reply(IF detected_lang = "ar" THEN bot_response
             ELSE FromArabic(bot_response), 200)
    /\ UNCHANGED <<store, last_user_tag, matched_tag, nreq, locals>>
    /\ UNCHANGED conc

\* line 148: the translator raises
DenormalizeFails ==
    /\ pc = "denormalize"
    /\ detected_lang # "ar"
    /\ ServerError
    /\ UNCHANGED <<store, last_user_tag, matched_tag, nreq, locals>>
    /\ UNCHANGED conc

Next ==
    \/ \E m \in Messages : Receive(m)
    \/ ReceiveBadJson
    \/ Normalize
    \/ NormalizeFails
    \/ IntentMatch
    \/ LocalMatch
    \/ Elaborate
    \/ DomainGate
    \/ \E raw \in WikipediaOutcomes(translated_message) : Wikipedia(raw)
    \/ \E raw \in WikipediaOutcomes(translated_message) : WikipediaRaises(raw)
    \/ \E raw \in GeminiOutcomes(translated_message) : Gemini(raw)
    \/ \E raw \in DuckDuckGoOutcomes(translated_message) : DuckDuckGo(raw)
    \/ Persist
    \/ PersistWriteFails
    \/ Denormalize
    \/ DenormalizeFails

Spec == Init /\ [][Next]_vars

\* a step of the handler while a request is in progress
HandlerStep == pc \notin {"idle", "done"} /\ Next

\* the handler runs on: a request in progress is never left where it is
FairSpec == Spec /\ WF_vars(HandlerStep)

(***************************************************************************)
(* save_question, lines 44-49, called on its own, one call after another.  *)
(* The arguments of a call are kept in translated_message and bot_response *)
(* as at line 146, and calls records the calls made.                       *)
(***************************************************************************)
MaxSaves == 3

SaveQuestions == {<<"m", "u", "a">>, <<"m", "U", "A">>, <<"1", "2", "3">>}

SaveAnswers == {<<"w", "m", "u", "a">>, <<"g", "m", "u", "a">>, MsgNoAnswer}

\* lines 46-49: the call returns
SaveCall(q, a) ==
    /\ pc \in {"idle", "saved", "save_failed"}
    /\ Len(calls) < MaxSaves
    /\ translated_message' = q
    /\ bot_response' = a
    /\ calls' = Append(calls, [question |-> q, answer |-> a])
    /\ questions_data' = save_question(questions_data, q, a)
    /\ questions_file' =
           IF SaveAllowed(q, a) THEN questions_data' ELSE questions_file
    /\ pc' = "saved"
    /\ UNCHANGED <<last_user_tag, matched_tag, nreq, user_message,
                   detected_lang, response, tag, local, final_response,
                   status>>
    /\ UNCHANGED conc

\* lines 47-49: the entry is stored and open or json.dump raises
SaveCallWriteFails(q, a) ==
    /\ pc \in {"idle", "saved", "save_failed"}
    /\ Len(calls) < MaxSaves
    /\ SaveAllowed(q, a)
    /\ translated_message' = q
    /\ bot_response' = a
    /\ calls' = Append(calls, [question |-> q, answer |-> a])
    /\ questions_data' = save_question(questions_data, q, a)
    /\ pc' = "save_failed"
    /\ UNCHANGED <<questions_file, last_user_tag, matched_tag, nreq,
                   user_message, detected_lang, response, tag, local,
                   final_response, status>>
    /\ UNCHANGED conc

SaveNext ==
    \/ \E q \in SaveQuestions, a \in SaveAnswers : SaveCall(q, a)
    \/ \E q \in SaveQuestions, a \in SaveAnswers : SaveCallWriteFails(q, a)

SaveSpec == Init /\ [][SaveNext]_vars

(***************************************************************************)
(* Two requests at line 146 at the same time: save_question, lines 44-49,  *)
(* step by step in each thread.  Nothing in app.py orders the steps of one *)
(* thread with those of the other.                                         *)
(***************************************************************************)
ConcQuestions == {<<"m", "u", "a">>, <<"p", "h", "b">>}

ConcAnswers == {<<"w", "m", "u", "a">>, <<"g", "z">>, MsgNoAnswer}

ConcFrame ==
    UNCHANGED <<questions_file, last_user_tag, pc, user_message,
                detected_lang, translated_message, response, tag, local,
                bot_response, final_response, status, calls, matched_tag,
                nreq>>

\* lines 46-47: the test and the assignment to questions_data
ConcStore(t, q, a) ==
    /\ writers[t].pc = "idle"
    /\ questions_data' = save_question(questions_data, q, a)
    /\ writers' = [writers EXCEPT ![t] =
                       [pc |-> IF SaveAllowed(q, a) THEN "open" ELSE "done",
                        question |-> q, answer |-> a, buf |-> <<>>]]
    /\ UNCHANGED disk
    /\ ConcFrame

\* line 48: open(QUESTIONS_FILE, "w") empties the file
ConcOpen(t) ==
    /\ writers[t].pc = "open"
    /\ disk' = <<>>
    /\ writers' = [writers EXCEPT ![t].pc = "dump"]
    /\ UNCHANGED questions_data
    /\ ConcFrame

\* line 49: json.dump fills the buffer of the file object
ConcDump(t) ==
    /\ writers[t].pc = "dump"
    /\ writers' = [writers EXCEPT ![t].pc = "close",
                                  ![t].buf = Serialize(questions_data)]
    /\ UNCHANGED <<questions_data, disk>>
    /\ ConcFrame

\* the end of the with block of lines 48-49: the buffer is written
ConcClose(t) ==
    /\ writers[t].pc = "close"
    /\ disk' = WriteFromStart(disk, writers[t].buf)
    /\ writers' = [writers EXCEPT ![t].pc = "done"]
    /\ UNCHANGED questions_data
    /\ ConcFrame

ConcNext ==
    \/ \E t \in Threads, q \in ConcQuestions, a \in ConcAnswers :
           ConcStore(t, q, a)
    \/ \E t \in Threads : ConcOpen(t)
    \/ \E t \in Threads : ConcDump(t)
    \/ \E t \in Threads : ConcClose(t)

ConcSpec == Init /\ [][ConcNext]_vars

(***************************************************************************)
(* Properties.                                                             *)
(***************************************************************************)

\* the request in progress has passed line 140
PastGate ==
    \/ pc \in {"wikipedia", "gemini", "duckduckgo", "persist", "denormalize"}
    \/ pc = "done" /\ (bot_response # None \/ calls # <<>>)

\* the text contains none of the words
ContainsNone(text, words) ==
    \A word \in words : ~Contains(Lower(text), word)

\* the detailed responses the configuration defines for a tag
DetailsOf(t) ==
    { intents_data[i].detailed_response :
          i \in { j \in 1..Len(intents_data) :
                      /\ intents_data[j].tag = t
                      /\ "detailed_response" \in DOMAIN intents_data[j] } }

\* C1: once a request has matched an intent, i.e. search_intents returned
\* the tag of an intent, last_user_tag equals that tag.
C1_LastTagFollowsMatch == tag # None => last_user_tag = tag

\* C2: when the text of the request contains a detail phrase and the latest
\* matched intent defines a detailed_response, the response selected after
\* the elaboration step is that detailed_response.  The last tag is taken
\* from the history of intent matches (matched_tag): last_user_tag itself
\* is never set, see C1.
C2_ElaborationOverride ==
    ( /\ pc = "gate"
      /\ ~ContainsNone(translated_message, detail_keywords)
      /\ matched_tag # None
      /\ DetailsOf(matched_tag) # {} )
    => bot_response \in DetailsOf(matched_tag)

\* C3: the step that persists the out-of-scope reply of a request the
\* domain gate rejected leaves the store and the questions file unchanged.
C3_RefusalNotPersisted ==
    [][ (pc = "persist" /\ bot_response = MsgOutOfScope)
        => (questions_data' = questions_data
            /\ questions_file' = questions_file) ]_vars

\* C4: every entry a step adds to the store or overwrites has a well-formed
\* question and an answer that is not a non-answer; a request whose
\* normalized text is shorter than 3 characters or purely numeric leaves
\* the store and the file as they are.
C4_StoreGuard ==
    [][ /\ \A q \in DOMAIN questions_data' :
               (q \notin DOMAIN questions_data
                \/ questions_data'[q] # questions_data[q])
               => /\ Len(q) > 2
                  /\ ~IsDigit(q)
                  /\ questions_data'[q] \notin NonAnswers
        /\ (translated_message' # None
            /\ (Len(translated_message') < 3 \/ IsDigit(translated_message')))
           => (questions_data' = questions_data
               /\ questions_file' = questions_file) ]_vars

\* C4 witness: the cascade failed, save_question was called with the
\* failure text and the question is not in the store.
C4_Witness ==
    /\ pc = "denormalize"
    /\ calls # <<>>
    /\ bot_response = MsgNoAnswer
    /\ translated_message \notin DOMAIN questions_data

\* C5: a request past the gate whose question contains no museum keyword
\* and had neither an intent match nor a learned answer has the
\* out-of-scope text as its answer and has called no provider; an Arabic
\* request that is answered with status 200 carries that text.
C5_DomainGate ==
    ( /\ PastGate
      /\ response = None
      /\ local = None
      /\ ContainsNone(translated_message, keywords) )
    => /\ calls = <<>>
       /\ bot_response = MsgOutOfScope
       /\ (pc = "done" /\ status = 200 /\ detected_lang = "ar")
          => final_response = MsgOutOfScope

\* C5 witness: an out-of-domain request was answered with the refusal.
C5_Witness ==
    /\ pc = "done"
    /\ status = 200
    /\ response = None
    /\ local = None
    /\ ContainsNone(translated_message, keywords)
    /\ final_response = MsgOutOfScope
    /\ calls = <<>>

\* C6: every provider result the cascade accepted contains the query,
\* compared without case.
C6_RelevancePolicy ==
    \A i \in 1..Len(calls) :
        Truthy(calls[i].ret)
        => Contains(Lower(calls[i].ret), Lower(translated_message))

\* C7: the providers are called in the order wikipedia, gemini,
\* duckduckgo; a provider is called only after every earlier one returned
\* nothing; after an irrelevant wikipedia text and a relevant gemini text
\* the answer is gemini's text and duckduckgo is not called.
C7_CascadeOrder ==
    LET Order == <<"wikipedia", "gemini", "duckduckgo">>
        q == Lower(translated_message)
    IN  /\ Len(calls) <= 3
        /\ \A i \in 1..Len(calls) : calls[i].provider = Order[i]
        /\ \A i \in 1..(Len(calls) - 1) : ~Truthy(calls[i].ret)
        /\ \A i \in 1..3 : pc = Order[i] => Len(calls) = i - 1
        /\ pc \in {"gemini", "duckduckgo"} => ~Truthy(calls[Len(calls)].ret)
        /\ ( /\ Len(calls) >= 2
             /\ calls[1].raw.kind = "text"
             /\ ~Contains(Lower(calls[1].raw.text), q)
             /\ calls[2].raw.kind = "text"
             /\ calls[2].raw.text # <<>>
             /\ Contains(Lower(calls[2].raw.text), q) )
           => /\ Len(calls) = 2
              /\ pc # "duckduckgo"
              /\ bot_response = calls[2].raw.text

\* C7 witness: wikipedia's text was irrelevant, gemini's relevant, and the
\* request was answered with gemini's text after two provider calls.
C7_Witness ==
    /\ pc = "done"
    /\ status = 200
    /\ Len(calls) = 2
    /\ calls[1].raw.kind = "text"
    /\ ~Contains(Lower(calls[1].raw.text), Lower(translated_message))
    /\ calls[2].raw.kind = "text"
    /\ Contains(Lower(calls[2].raw.text), Lower(translated_message))
    /\ final_response = calls[2].raw.text

\* C8: a step that calls a provider never ends the request with the
\* server-error reply.
C8_ProviderFailureNotFatal ==
    [][ (pc \in {"wikipedia", "gemini", "duckduckgo"}) => (status' # 500) ]_vars

\* C9: the step that saves the answer never ends the request with the
\* server-error reply.
C9_PersistBestEffort ==
    [][ (pc = "persist") => (status' # 500) ]_vars

\* C10: once the cascade's accepted answer has been saved, the store maps
\* the question to it; and a request without intent match whose question
\* is a key of the store, the store being the one the file holds, gets the
\* stored answer and calls no provider.
C10_LearnedReuse ==
    /\ ( /\ pc \in {"denormalize", "done"}
         /\ calls # <<>>
         /\ Truthy(calls[Len(calls)].ret)
         /\ bot_response \notin NonAnswers )
       => /\ translated_message \in DOMAIN questions_data
          /\ questions_data[translated_message] = bot_response
    /\ ( /\ pc \in {"elaborate", "gate", "wikipedia", "gemini", "duckduckgo",
                    "persist"}
         /\ response = None
         /\ questions_file = questions_data
         /\ translated_message \in DOMAIN questions_data
         /\ questions_data[translated_message] # MsgOutOfScope )
       => /\ calls = <<>>
          /\ bot_response = questions_data[translated_message]

\* C11: every request in progress eventually ends with a reply: a text and
\* one of the statuses 200, 400 and 500.
C11_RequestTerminates ==
    (pc \notin {"idle", "done"})
    ~> (pc = "done" /\ final_response # None /\ status \in {200, 400, 500})

\* C11 witness: a request that went through the whole cascade without an
\* answer has ended with the failure text.
C11_Witness ==
    /\ pc = "done"
    /\ status = 200
    /\ Len(calls) = 3
    /\ final_response = MsgNoAnswer

\* C12: the step that normalizes a request to a text of at most 2
\* characters or of digits only ends the request with the "unclear
\* question" reply and status 200; it changes neither the store, the file
\* nor the last tag, and the request has had no intent lookup, no learned
\* lookup and no provider call.
C12_IllFormedShortCircuit ==
    [][ ( /\ pc = "normalize"
          /\ translated_message' # None
          /\ (Len(translated_message') <= 2 \/ IsDigit(translated_message')) )
        => ( /\ pc' = "done"
             /\ final_response' = MsgUnclear
             /\ status' = 200
             /\ response' = None
             /\ tag' = None
             /\ local' = None
             /\ bot_response' = None
             /\ calls' = <<>>
             /\ UNCHANGED <<questions_data, questions_file, last_user_tag,
                            matched_tag>> ) ]_vars

\* C12 witness: a purely numeric question was answered with the "unclear
\* question" reply.
C12_Witness ==
    /\ pc = "done"
    /\ translated_message # None
    /\ IsDigit(translated_message)
    /\ final_response = MsgUnclear

\* C13: a request whose message is empty or only whitespace (a missing
\* message is the empty one) ends in the step that receives it, with the
\* client-error reply and status 400: no language is detected, nothing is
\* looked up, no provider is called, and the store, the file and the last
\* tag are unchanged.
C13_EmptyMessageRejected ==
    [][ ( /\ pc \in {"idle", "done"}
          /\ user_message' # None
          /\ \A i \in 1..Len(user_message') : user_message'[i] \in Whitespace )
        => ( /\ pc' = "done"
             /\ status' = 400
             /\ final_response' = MsgInvalid
             /\ detected_lang' = None
             /\ translated_message' = None
             /\ response' = None
             /\ tag' = None
             /\ local' = None
             /\ bot_response' = None
             /\ calls' = <<>>
             /\ UNCHANGED <<questions_data, questions_file, last_user_tag,
                            matched_tag>> ) ]_vars

\* C13 witness: an empty message was answered with the client error.
C13_Witness ==
    /\ pc = "done"
    /\ status = 400
    /\ user_message = <<>>
    /\ final_response = MsgInvalid

\* C14: a call of save_question with a well-formed question and an answer
\* that is not refused leaves exactly the entries there were plus the one
\* for the question, which holds the answer of this call; a call with the
\* arguments of the call before it leaves the store as that call left it,
\* and the file too when that call wrote it.
C14_SaveIdempotent ==
    [][ (Len(calls') = Len(calls) + 1)
        => LET q == calls'[Len(calls')].question
               a == calls'[Len(calls')].answer
           IN  /\ (Len(q) > 2 /\ ~IsDigit(q) /\ a \notin NonAnswers)
                  => /\ DOMAIN questions_data' = DOMAIN questions_data \cup {q}
                     /\ questions_data'[q] = a
                     /\ \A k \in DOMAIN questions_data \ {q} :
                            questions_data'[k] = questions_data[k]
               /\ (calls # <<>> /\ calls[Len(calls)] = calls'[Len(calls')])
                  => /\ questions_data' = questions_data
                     /\ questions_file = questions_data
                        => questions_file' = questions_file ]_vars

\* C14 witness: the same valid pair was saved twice in a row over an entry
\* that held another answer, and the store holds the pair.
C14_Witness ==
    /\ Len(calls) = 3
    /\ calls[1].question = calls[2].question
    /\ calls[1].answer # calls[2].answer
    /\ calls[2] = calls[3]
    /\ calls[1].answer \notin NonAnswers
    /\ calls[3].answer \notin NonAnswers
    /\ calls[3].question \in DOMAIN questions_data
    /\ questions_data[calls[3].question] = calls[3].answer
    /\ questions_file = questions_data

\* C15: when a request in another language than Arabic has had its
\* answer from the cascade saved, the store holds that answer, in Arabic,
\* under the Arabic translation of the message and has no entry under the
\* message as it came; the reply is the answer translated back, which is
\* not the stored text; and no key and no answer of the store is a text in
\* another language.
C15_CanonicalStorage ==
    /\ ( /\ detected_lang = "en"
         /\ pc \in {"denormalize", "done"}
         /\ calls # <<>>
         /\ Truthy(calls[Len(calls)].ret)
         /\ bot_response \notin NonAnswers )
       => LET q == Tail(user_message)
          IN  /\ q \in DOMAIN questions_data
              /\ questions_data[q] = bot_response
              /\ user_message \notin DOMAIN questions_data
              /\ (pc = "done" /\ status = 200)
                 => /\ final_response = <<"~">> \o bot_response
                    /\ final_response # questions_data[q]
    /\ \A k \in DOMAIN questions_data :
           /\ Head(k) # "~"
           /\ questions_data[k] # <<>> => Head(questions_data[k]) # "~"

\* C15 witness: a request in English was answered by the cascade; the
\* reply is the stored Arabic answer translated back.
C15_Witness ==
    /\ detected_lang = "en"
    /\ pc = "done"
    /\ status = 200
    /\ calls # <<>>
    /\ Tail(user_message) \in DOMAIN questions_data
    /\ final_response = <<"~">> \o questions_data[Tail(user_message)]

\* C16: whenever no call of save_question is in progress, questions.json
\* holds the complete serialization of questions_data.
C16_FileNeverCorrupted ==
    (\A t \in Threads : writers[t].pc \in {"idle", "done"})
    => disk = Serialize(questions_data)

\* the request in progress has passed line 130
PastIntents ==
    \/ pc \in {"local", "elaborate", "gate", "wikipedia", "gemini",
               "duckduckgo", "persist", "denormalize"}
    \/ pc = "done" /\ (bot_response # None \/ calls # <<>>)

\* the intents with a pattern whose ratio to the text is at least 0.6
IntentsMatching(text) ==
    {i \in 1..Len(intents_data) :
         \E p \in intents_data[i].patterns : RatioAtLeastCutoff(p, text)}

\* C17: after the intent lookup, response and tag are the first response
\* and the tag of the first intent, in the order of the configuration, that
\* has a pattern matching the question at cutoff 0.6, whatever later
\* intents match; both are None exactly when no intent has such a pattern.
C17_FirstHitPolicy ==
    PastIntents
    => LET hits == IntentsMatching(translated_message)
       IN  IF hits = {}
           THEN response = None /\ tag = None
           ELSE LET first == CHOOSE i \in hits : \A j \in hits : i <= j
                IN  /\ response = intents_data[first].responses[1]
                    /\ tag = intents_data[first].tag

\* C17 witness: the question is a pattern of the second intent, an exact
\* match, and the reply is the first response of the first intent, which
\* matches it less well.
C17_Witness ==
    /\ pc = "done"
    /\ status = 200
    /\ translated_message \in intents_data[2].patterns
    /\ translated_message \notin intents_data[1].patterns
    /\ tag = intents_data[1].tag
    /\ final_response = intents_data[1].responses[1]

\* C18: last_user_tag changes only in the step that looks up the intents
\* and only when an intent matched; in particular the elaboration step
\* leaves it as it is.
C18_LastTagFrame ==
    [][ /\ (last_user_tag' # last_user_tag)
           => (pc = "intents" /\ tag' # None)
        /\ (pc = "elaborate") => (last_user_tag' = last_user_tag) ]_vars

\* C18 witness: after a request that matched an intent, a request that
\* matched none has been answered.
C18_Witness ==
    /\ pc = "done"
    /\ status = 200
    /\ PastIntents
    /\ tag = None
    /\ matched_tag # None

\* C19: every key of questions_data equals its own lower-case form.
C19_KeysCaseFolded ==
    \A k \in DOMAIN questions_data : k = Lower(k)

\* the answer lines 130-138 select: the intent's response, else the
\* learned answer, replaced by the detailed response when line 135 holds
SelectedAnswer ==
    LET base == IF Truthy(response) THEN response ELSE local
    IN  IF WantsDetail(translated_message, last_user_tag)
        THEN DetailScan(base, last_user_tag, 1)
        ELSE base

\* C20: once lines 130-138 have selected an answer that is not empty and
\* is not one of the two "no answer" texts, every further step of the
\* request leaves the store and the file unchanged and calls no provider;
\* the request goes straight to the translation of that answer.
C20_LocalAnswerFrame ==
    [][ ( /\ pc \in {"gate", "wikipedia", "gemini", "duckduckgo", "persist",
                     "denormalize"}
          /\ Truthy(SelectedAnswer)
          /\ Lower(SelectedAnswer) \notin {IDoNotUnderstand, MsgNoAnswer} )
        => ( /\ pc' \in {"denormalize", "done"}
             /\ calls' = <<>>
             /\ bot_response' = SelectedAnswer
             /\ questions_data' = questions_data
             /\ questions_file' = questions_file ) ]_vars

\* C20 witness: a request was answered from the learned answers, without a
\* provider call.
C20_Witness ==
    /\ pc = "done"
    /\ status = 200
    /\ response = None
    /\ Truthy(local)
    /\ calls = <<>>
    /\ final_response = local

====
